---- MODULE Spec2Model ----
(***************************************************************************)
(* State-machine model of the voice interview session                      *)
(* (src/components/InterviewSession.tsx) and of the part of the            *)
(* application shell that mounts and unmounts it (src/App.tsx).            *)
(*                                                                         *)
(* The program is single threaded: every callback (timer, DOM event,       *)
(* transport event, promise continuation) runs to completion, so each      *)
(* callback is one action.  Time is discrete, one unit = 1000 ms; a        *)
(* timeout is a countdown of units and may fire when the countdown is 0    *)
(* (at or after its due time, never before).  The callbacks of the 1 Hz    *)
(* interval are counted, not timed: the model does not relate their rate   *)
(* to the timeouts.                                                        *)
(*                                                                         *)
(* Strings that are built or joined by the program are sequences of        *)
(* tokens, so that joining is a computation and not the identity.          *)
(***************************************************************************)
EXTENDS Integers, Sequences, FiniteSets, TLC

VARIABLES
    \* ---- React state of InterviewSession
    status,                 \* 'connecting' | 'connected' | 'error'
    timeLeft,               \* remaining seconds
    systemMessageStatus,    \* the status line: none / warning n / ending reason
    \* ---- refs of InterviewSession
    isMounted,              \* isMountedRef
    terminationTriggered,   \* terminationTriggeredRef
    isConnected,            \* isConnectedRef
    tabSwitchCount,         \* tabSwitchCountRef
    fullTranscriptHistory,  \* fullTranscriptHistory.current
    scriptProcessorRef,     \* scriptProcessorRef.current # null
    sessionRef,             \* sessionRef.current # null
    streamRef,              \* streamRef.current # null
    nextAudioStartTime,     \* nextAudioStartTimeRef.current
    isAiSpeaking,           \* isAiSpeakingRef.current
    lastUserSpeechTime,     \* lastUserSpeechTimeRef.current, as the number of the frame
    isUserSpeaking,         \* React state isUserSpeaking
    currentTime,            \* audioContext.currentTime, in units
    sourcesRef,             \* sourcesRef.current
    \* ---- the resources behind the refs
    procNode,               \* script processor node: none / connected / disconnected
    onaudioprocess,         \* a handler is attached to the node
    channel,                \* duplex channel: none / connecting / open / closing / closed / failed
    micTrack,               \* microphone track: none / live / stopped
    audioCtx,               \* output AudioContext: none / running / closing / closed
    inputCtx,               \* input AudioContext: none / running / closing / closed
    \* ---- asynchronous continuations and timers
    initPc,                 \* where initSession is suspended
    pendingSends,           \* sends queued on the unresolved connect promise
    pendingDecodes,         \* inbound audio payloads whose decode is awaited
    graceTimers,            \* pending setTimeout callbacks of handleTermination
    \* ---- application shell
    appStep,                \* AppStep of App
    result,                 \* InterviewResult of App, or none
    pendingResults,         \* pending continuations of handleInterviewComplete
    completions,            \* the calls of onComplete received by App, in order
    \* ---- observations (not read by any action guard of the program)
    terminations,           \* reasons recorded on entering Terminating, in order
    disconnectCalls,        \* number of executions of disconnect()
    ticks,                  \* number of interval callbacks run since mount
    warnings,               \* number of tab-switch warnings issued
    elapsedSinceTermination,\* time units since Terminating was first entered
    lenAtTermination,       \* transcript length when Terminating was first entered
    frames,                 \* log of the microphone frames raised by the capture node
    sends,                  \* number of sendRealtimeInput calls
    scheduled,              \* log of the src.start(when) calls, in order
    decodeErrors,           \* number of failed decodes
    lastShutdown            \* the steps of the latest run of disconnect()

vars == <<status, timeLeft, systemMessageStatus, isMounted, terminationTriggered,
          isConnected, tabSwitchCount, fullTranscriptHistory, scriptProcessorRef,
          sessionRef, streamRef, nextAudioStartTime, sourcesRef, procNode,
          onaudioprocess, channel, micTrack, audioCtx, inputCtx, initPc,
          pendingSends, pendingDecodes, graceTimers, appStep, result,
          pendingResults, completions,
          terminations, disconnectCalls, ticks, warnings, elapsedSinceTermination,
          lenAtTermination, frames, sends, currentTime, scheduled, decodeErrors,
          lastShutdown, isAiSpeaking, lastUserSpeechTime, isUserSpeaking>>

\* the voice-activity state of the capture callback
voiceVars == <<isUserSpeaking, lastUserSpeechTime>>

\* the output clock and the playback log
playVars == <<currentTime, scheduled, decodeErrors>>

termVars == <<terminationTriggered, graceTimers, terminations, lenAtTermination>>

\* the state of App
appVars == <<appStep, result, pendingResults>>

resourceVars == <<isConnected, scriptProcessorRef, sessionRef, streamRef, sourcesRef,
                  procNode, onaudioprocess, channel, micTrack, audioCtx, inputCtx,
                  disconnectCalls, lastShutdown>>

(***************************************************************************)
(* Program constants                                                       *)
(***************************************************************************)
\* useState(600): the countdown total, in seconds
InitialTimeLeft == 600

\* setTimeout(..., 2000) in handleTermination, in time units of 1000 ms
GraceDelay == 2

\* tabSwitchCountRef.current >= 3
TabSwitchLimit == 3

\* the voice-activity threshold on the root mean square of a frame, in
\* thousandths of full scale
SpeechThreshold == 20

(***************************************************************************)
(* Bounds of the model                                                     *)
(***************************************************************************)
\* Spec starts this many seconds before the countdown reaches zero
LateTimeLeft == 1

\* text deltas appended to the transcript
MaxTranscript == 2

\* microphone frames produced
MaxFrames == 2

\* total duration of inbound audio, in units
MaxAudioTime == 1

\* total duration of inbound audio where playback is followed, in units
MaxPlayback == 2

\* the longest transcript under the fair specification
MaxLiveTranscript == 1

\* the output clock is followed up to this many units
MaxClock == 2

\* focus losses are counted up to one past the limit
MaxTabSwitch == TabSwitchLimit + 1

\* the tick counter saturates one past the countdown total
TickCap == InitialTimeLeft + 1

(***************************************************************************)
(* Values                                                                  *)
(***************************************************************************)
Completed == "Completed"
TimeLimitReason == "Time Limit Exceeded"
TabSwitchReason == "Disqualified: Excessive Tab Switching"
UserEndReason == "User ended session"

\* (call.args as any)?.reason : absent, empty, or a string
Undefined == "<undefined>"
ArgReasons == {Undefined, "", Completed, "Candidate asked to stop"}

\* useState<InterviewResult | null>(null): no result, or the one that was set
NullResult == <<>>

\* the text deltas the agent streams, as token sequences; the delta that
\* follows k recorded ones is the (k+1)-th of the stream
TextStream == <<<<"hello">>, <<"bye">>, <<"thanks">>, <<"ok">>>>

\* durations of decoded audio units
Durations == {1}

\* the root mean square of a captured frame, in thousandths of full scale:
\* silence, exactly the threshold, just above it
RmsLevels == {0, SpeechThreshold, SpeechThreshold + 1}

NoMessage == [kind |-> "none", n |-> 0, reason |-> ""]
WarningMessage(n) == [kind |-> "warning", n |-> n, reason |-> ""]
EndingMessage(reason) == [kind |-> "ending", n |-> 0, reason |-> reason]

Min(a, b) == IF a < b THEN a ELSE b
Max(a, b) == IF a > b THEN a ELSE b

RemoveAt(s, i) == [j \in 1..(Len(s) - 1) |-> IF j < i THEN s[j] ELSE s[j + 1]]

(***************************************************************************)
(* Pure functions                                                          *)
(***************************************************************************)
\* fullTranscriptHistory.current.join('\n')
RECURSIVE Join(_)
Join(lines) ==
    IF lines = <<>> THEN <<>>
    ELSE IF Len(lines) = 1 THEN lines[1]
    ELSE lines[1] \o <<"\n">> \o Join(Tail(lines))

\* faulty variant of the transcript entry: the text is recorded as a user entry
UserLine(text) == <<"User: ">> \o text

\* `AI: ${text}`
AiLine(text) == <<"AI: ">> \o text

\* faulty variant of the append: the newest entry is put first
pushFront(history, line) == <<line>> \o history

\* fullTranscriptHistory.current.push(line)
push(history, line) == Append(history, line)

\* faulty variant of the default: only an absent reason is replaced (?? for ||)
ReasonOfAbsentOnly(arg) == IF arg = Undefined THEN Completed ELSE arg

\* (call.args as any)?.reason || "Completed"
ReasonOf(arg) == IF arg = Undefined \/ arg = "" THEN Completed ELSE arg

\* faulty variant of the lookup: the first call is taken, whatever its name
FindFirstCall(calls) ==
    IF calls = <<>> THEN [found |-> FALSE, reason |-> Undefined]
    ELSE [found |-> TRUE, reason |-> calls[1].reason]

\* message.toolCall.functionCalls?.find(f => f.name === 'endInterview')
RECURSIVE FindEndInterview(_)
FindEndInterview(calls) ==
    IF calls = <<>> THEN [found |-> FALSE, reason |-> Undefined]
    ELSE IF calls[1].name = "endInterview"
         THEN [found |-> TRUE, reason |-> calls[1].reason]
         ELSE FindEndInterview(Tail(calls))

(***************************************************************************)
(* disconnect(): the shutdown sequence.  Its steps, in the order of the    *)
(* code; each is run only if its guard holds, so a step on an already      *)
(* released resource does nothing.                                         *)
(*   detach          onaudioprocess = null; node.disconnect(); ref = null   *)
(*   closeTransport  try { session.close() } catch; ref = null              *)
(*   stopTracks      getTracks().forEach(stop); ref = null                  *)
(*   closeOutput     audioContextRef.current.close()                        *)
(*   closeInput      inputAudioContextRef.current.close()                   *)
(*   cancelAnimation cancelAnimationFrame(animationRef.current)             *)
(*   stopSources     sourcesRef: try { source.stop() } catch; clear()       *)
(***************************************************************************)
\* faulty variant of the order: the transport is closed before the capture
\* callback is detached
ShutdownStepsTransportFirst ==
    <<"closeTransport", "detach", "stopTracks", "closeOutput", "closeInput",
      "cancelAnimation", "stopSources">>

ShutdownSteps ==
    <<"detach", "closeTransport", "stopTracks", "closeOutput", "closeInput",
      "cancelAnimation", "stopSources">>

\* the steps whose release call is wrapped in try/catch
GuardedSteps == {"closeTransport", "stopSources"}

\* the release calls that may be made to throw
FaultSteps == {"detach", "closeTransport", "stopTracks", "closeOutput", "closeInput"}

\* the guard of a step.  animationRef is set by the visualizer, which is
\* started as soon as the output context exists.
StepDue(step) ==
    CASE step = "detach" -> scriptProcessorRef
      [] step = "closeTransport" -> sessionRef
      [] step = "stopTracks" -> streamRef
      [] step = "closeOutput" -> audioCtx \in {"running", "closing"}
      [] step = "closeInput" -> inputCtx \in {"running", "closing"}
      [] step = "cancelAnimation" -> audioCtx # "none"
      [] OTHER -> TRUE

StepIndex(step) == CHOOSE k \in DOMAIN ShutdownSteps : ShutdownSteps[k] = step

\* the release call of step fault throws ("none": nothing throws): an
\* exception outside try/catch leaves disconnect() at once
StepReached(step, fault) ==
    \/ fault = "none"
    \/ fault \in GuardedSteps
    \/ StepIndex(step) <= StepIndex(fault)

StepDone(step, fault) == StepDue(step) /\ StepReached(step, fault) /\ step # fault

\* faulty variant of disconnect(): the capture callback stays attached and
\* isConnectedRef stays set
disconnectKeepsCapture ==
    /\ UNCHANGED <<isConnected, onaudioprocess, procNode>>
    /\ scriptProcessorRef' = FALSE
    /\ IF sessionRef
       THEN /\ channel' = IF channel = "open" THEN "closing" ELSE channel
            /\ sessionRef' = FALSE
       ELSE UNCHANGED <<channel, sessionRef>>
    /\ IF streamRef
       THEN /\ micTrack' = "stopped"
            /\ streamRef' = FALSE
       ELSE UNCHANGED <<micTrack, streamRef>>
    /\ audioCtx' = IF audioCtx = "running" THEN "closed" ELSE audioCtx
    /\ inputCtx' = IF inputCtx = "running" THEN "closed" ELSE inputCtx
    /\ sourcesRef' = {}
    /\ disconnectCalls' = disconnectCalls + 1
    /\ lastShutdown' = [due |-> SelectSeq(ShutdownSteps, StepDue),
                        done |-> SelectSeq(ShutdownSteps, StepDue),
                        fault |-> "none"]

\* faulty variant of disconnect(): isConnectedRef is not reset
disconnectStaysConnected ==
    /\ isConnected' = isConnected
    /\ IF scriptProcessorRef
       THEN /\ onaudioprocess' = FALSE
            /\ procNode' = "disconnected"
            /\ scriptProcessorRef' = FALSE
       ELSE UNCHANGED <<onaudioprocess, procNode, scriptProcessorRef>>
    /\ IF sessionRef
       THEN /\ channel' = IF channel = "open" THEN "closing" ELSE channel
            /\ sessionRef' = FALSE
       ELSE UNCHANGED <<channel, sessionRef>>
    /\ IF streamRef
       THEN /\ micTrack' = "stopped"
            /\ streamRef' = FALSE
       ELSE UNCHANGED <<micTrack, streamRef>>
    /\ audioCtx' = IF audioCtx = "running" THEN "closed" ELSE audioCtx
    /\ inputCtx' = IF inputCtx = "running" THEN "closed" ELSE inputCtx
    /\ sourcesRef' = {}
    /\ disconnectCalls' = disconnectCalls + 1
    /\ lastShutdown' = [due |-> SelectSeq(ShutdownSteps, StepDue),
                        done |-> SelectSeq(ShutdownSteps, StepDue),
                        fault |-> "none"]

\* disconnect() when the release call of step fault throws.  close() of an
\* audio context settles asynchronously and the state attribute that the
\* guards read turns 'closed' only then: shown is what the attribute shows
\* when the next callback runs, "closed" when the close has settled by then,
\* "closing" when it has not.  close() on a context that is already closing
\* changes nothing.
disconnectClose(fault, shown) ==
    /\ isConnected' = FALSE
    /\ IF scriptProcessorRef
       THEN /\ onaudioprocess' = FALSE
            /\ procNode' = IF StepDone("detach", fault) THEN "disconnected" ELSE procNode
            /\ scriptProcessorRef' = ~StepDone("detach", fault)
       ELSE UNCHANGED <<onaudioprocess, procNode, scriptProcessorRef>>
    /\ IF sessionRef /\ StepReached("closeTransport", fault)
       THEN /\ channel' = IF channel = "open" /\ StepDone("closeTransport", fault)
                          THEN "closing" ELSE channel
            /\ sessionRef' = FALSE
       ELSE UNCHANGED <<channel, sessionRef>>
    /\ IF StepDone("stopTracks", fault)
       THEN /\ micTrack' = "stopped"
            /\ streamRef' = FALSE
       ELSE UNCHANGED <<micTrack, streamRef>>
    /\ audioCtx' = IF StepDone("closeOutput", fault) /\ audioCtx = "running"
                   THEN shown ELSE audioCtx
    /\ inputCtx' = IF StepDone("closeInput", fault) /\ inputCtx = "running"
                   THEN shown ELSE inputCtx
    /\ sourcesRef' = IF StepReached("stopSources", fault) THEN {} ELSE sourcesRef
    /\ disconnectCalls' = disconnectCalls + 1
    /\ lastShutdown' = [due |-> SelectSeq(ShutdownSteps, StepDue),
                        done |-> SelectSeq(ShutdownSteps,
                                           LAMBDA step : StepDone(step, fault)),
                        fault |-> fault]

\* disconnect() when the contexts are closed by the time the next callback runs
disconnectWith(fault) == disconnectClose(fault, "closed")

\* disconnect() on a platform whose release calls do not throw
disconnect == disconnectWith("none")

(***************************************************************************)
(* Faulty variants of handleTermination, against which the termination     *)
(* properties are tested.                                                  *)
(***************************************************************************)
\* the single-shot flag is set but never consulted
handleTerminationUnguarded(msgBefore, reason) ==
    /\ terminationTriggered' = TRUE
    /\ systemMessageStatus' = EndingMessage(reason)
    /\ graceTimers' = Append(graceTimers, [reason |-> reason, left |-> GraceDelay])
    /\ terminations' = Append(terminations, reason)
    /\ lenAtTermination' = Len(fullTranscriptHistory)

\* the handoff is scheduled without a delay
handleTerminationNoGrace(msgBefore, reason) ==
    IF terminationTriggered
    THEN /\ systemMessageStatus' = msgBefore
         /\ UNCHANGED termVars
    ELSE /\ terminationTriggered' = TRUE
         /\ systemMessageStatus' = EndingMessage(reason)
         /\ graceTimers' = Append(graceTimers, [reason |-> reason, left |-> 0])
         /\ terminations' = Append(terminations, reason)
         /\ lenAtTermination' = Len(fullTranscriptHistory)

\* a later request replaces the reason the pending timer will hand over
handleTerminationLastWins(msgBefore, reason) ==
    /\ terminationTriggered' = TRUE
    /\ systemMessageStatus' = EndingMessage(reason)
    /\ graceTimers' = IF terminationTriggered
                      THEN [i \in DOMAIN graceTimers |->
                               [graceTimers[i] EXCEPT !.reason = reason]]
                      ELSE Append(graceTimers, [reason |-> reason, left |-> GraceDelay])
    /\ terminations' = IF terminationTriggered THEN terminations
                       ELSE Append(terminations, reason)
    /\ lenAtTermination' = IF terminationTriggered THEN lenAtTermination
                           ELSE Len(fullTranscriptHistory)

(***************************************************************************)
(* handleTermination(reason), called with the status line as the caller    *)
(* left it (msgBefore).  The flag is tested and set in one callback, with   *)
(* nothing awaited in between.                                             *)
(***************************************************************************)
handleTermination(msgBefore, reason) ==
    IF terminationTriggered
    THEN /\ systemMessageStatus' = msgBefore
         /\ UNCHANGED termVars
    ELSE /\ terminationTriggered' = TRUE
         /\ systemMessageStatus' = EndingMessage(reason)
         /\ graceTimers' = Append(graceTimers, [reason |-> reason, left |-> GraceDelay])
         /\ terminations' = Append(terminations, reason)
         /\ lenAtTermination' = Len(fullTranscriptHistory)

\* a callback that ends without calling handleTermination
noTermination(msgBefore) ==
    /\ systemMessageStatus' = msgBefore
    /\ UNCHANGED termVars

(***************************************************************************)
(* The state after the mount effect has run: initSession has run up to its *)
(* first await (or returned for want of an API key), the interval and the   *)
(* visibility listener are registered.  The countdown shows t seconds: the *)
(* freshly mounted session has t = InitialTimeLeft; a session that has      *)
(* waited InitialTimeLeft - t seconds for the microphone permission is in   *)
(* the same state with a smaller t.                                        *)
(***************************************************************************)
Mounted(t) ==
    /\ timeLeft = t
    /\ ticks = InitialTimeLeft - t
    /\ \E apiKey \in BOOLEAN :
          /\ status = IF apiKey THEN "connecting" ELSE "error"
          /\ initPc = IF apiKey THEN "awaitMic" ELSE "returned"
          /\ audioCtx = IF apiKey THEN "running" ELSE "none"
          /\ inputCtx = IF apiKey THEN "running" ELSE "none"
    /\ systemMessageStatus = NoMessage
    /\ isMounted = TRUE
    /\ terminationTriggered = FALSE
    /\ isConnected = FALSE
    /\ tabSwitchCount = 0
    /\ fullTranscriptHistory = <<>>
    /\ scriptProcessorRef = FALSE
    /\ sessionRef = FALSE
    /\ streamRef = FALSE
    /\ nextAudioStartTime = 0
    /\ sourcesRef = {}
    /\ procNode = "none"
    /\ onaudioprocess = FALSE
    /\ channel = "none"
    /\ micTrack = "none"
    /\ pendingSends = 0
    /\ pendingDecodes = <<>>
    /\ graceTimers = <<>>
    /\ appStep = "INTERVIEW"
    /\ result = NullResult
    /\ pendingResults = <<>>
    /\ completions = <<>>
    /\ terminations = <<>>
    /\ disconnectCalls = 0
    /\ warnings = 0
    /\ elapsedSinceTermination = 0
    /\ lenAtTermination = 0
    /\ frames = <<>>
    /\ sends = 0
    /\ currentTime = 0
    /\ scheduled = <<>>
    /\ decodeErrors = 0
    /\ lastShutdown = [due |-> <<>>, done |-> <<>>, fault |-> "none"]
    /\ isAiSpeaking = FALSE
    /\ lastUserSpeechTime = 0
    /\ isUserSpeaking = FALSE

Init == Mounted(InitialTimeLeft)

LateInit == Mounted(LateTimeLeft)

(***************************************************************************)
(* initSession                                                             *)
(***************************************************************************)
\* getUserMedia resolves: the stream is stored, then the script processor is
\* created and connect() is called without an await in between.  When the
\* input context has been closed by a shutdown in the meantime, whether
\* creating the nodes on it throws is left to the platform; if it does, the
\* catch block sets the status to 'error' and nothing after the stream exists.
MicGranted(throws) ==
    /\ initPc = "awaitMic"
    /\ throws => inputCtx \in {"closing", "closed"}
    /\ streamRef' = TRUE
    /\ micTrack' = "live"
    /\ IF throws
       THEN /\ initPc' = "failed"
            /\ status' = IF isMounted THEN "error" ELSE status
            /\ UNCHANGED <<scriptProcessorRef, procNode, channel>>
       ELSE /\ initPc' = "awaitConnect"
            /\ scriptProcessorRef' = TRUE
            /\ procNode' = "connected"
            /\ channel' = "connecting"
            /\ status' = status
    /\ UNCHANGED <<timeLeft, systemMessageStatus, isMounted, isConnected,
                   tabSwitchCount, fullTranscriptHistory, sessionRef,
                   nextAudioStartTime, playVars, isAiSpeaking, sourcesRef, onaudioprocess, audioCtx,
                   inputCtx,
                   pendingSends, pendingDecodes, appVars, completions,
                   disconnectCalls, lastShutdown, ticks, warnings, elapsedSinceTermination,
                   frames, voiceVars, sends, termVars>>

\* faulty variant: the failure of getUserMedia is swallowed and initSession
\* goes on to connect
MicDeniedStillConnects ==
    /\ initPc = "awaitMic"
    /\ initPc' = "awaitConnect"
    /\ status' = IF isMounted THEN "error" ELSE status
    /\ channel' = "connecting"
    /\ UNCHANGED <<timeLeft, systemMessageStatus, isMounted, tabSwitchCount,
                   fullTranscriptHistory, nextAudioStartTime, playVars, isAiSpeaking, pendingSends,
                   pendingDecodes, appVars, completions, ticks, warnings,
                   elapsedSinceTermination, frames, voiceVars, sends, termVars,
                   isConnected, scriptProcessorRef, sessionRef, streamRef, sourcesRef,
                   procNode, onaudioprocess, micTrack, audioCtx, inputCtx,
                   disconnectCalls, lastShutdown>>

\* getUserMedia rejects: catch (e) { setStatus('error') }
MicDenied ==
    /\ initPc = "awaitMic"
    /\ initPc' = "failed"
    /\ status' = IF isMounted THEN "error" ELSE status
    /\ UNCHANGED <<timeLeft, systemMessageStatus, isMounted, tabSwitchCount,
                   fullTranscriptHistory, nextAudioStartTime, playVars, isAiSpeaking, pendingSends,
                   pendingDecodes, appVars, completions, ticks, warnings,
                   elapsedSinceTermination, frames, voiceVars, sends, termVars, resourceVars>>

\* callbacks.onopen
OnOpen ==
    /\ channel = "connecting"
    /\ channel' = "open"
    /\ IF isMounted
       THEN /\ status' = "connected"
            /\ isConnected' = TRUE
            /\ onaudioprocess' = TRUE
       ELSE UNCHANGED <<status, isConnected, onaudioprocess>>
    /\ UNCHANGED <<timeLeft, systemMessageStatus, isMounted, tabSwitchCount,
                   fullTranscriptHistory, scriptProcessorRef, sessionRef, streamRef,
                   nextAudioStartTime, playVars, isAiSpeaking, sourcesRef, procNode, micTrack,
                   audioCtx,
                   inputCtx, initPc, pendingSends, pendingDecodes, appVars,
                   completions, disconnectCalls, lastShutdown, ticks, warnings,
                   elapsedSinceTermination, frames, voiceVars, sends, termVars>>

\* the connect promise resolves: sessionRef.current = await sessionPromise, then
\* the sends that were chained on the promise while it was pending
ConnectResolved ==
    /\ initPc = "awaitConnect"
    /\ channel \in {"open", "closed"}
    /\ initPc' = "done"
    /\ sessionRef' = TRUE
    /\ sends' = sends + pendingSends
    /\ pendingSends' = 0
    /\ UNCHANGED <<status, timeLeft, systemMessageStatus, isMounted, isConnected,
                   tabSwitchCount, fullTranscriptHistory, scriptProcessorRef, streamRef,
                   nextAudioStartTime, playVars, isAiSpeaking, sourcesRef, procNode, onaudioprocess,
                   channel,
                   micTrack, audioCtx, inputCtx, pendingDecodes, appVars,
                   completions, disconnectCalls, lastShutdown, ticks, warnings,
                   elapsedSinceTermination, frames, voiceVars, termVars>>

\* the connect promise rejects: catch (e) { setStatus('error') }
ConnectRejected ==
    /\ initPc = "awaitConnect"
    /\ channel = "connecting"
    /\ initPc' = "failed"
    /\ channel' = "failed"
    /\ status' = IF isMounted THEN "error" ELSE status
    /\ UNCHANGED <<timeLeft, systemMessageStatus, isMounted, isConnected,
                   tabSwitchCount, fullTranscriptHistory, scriptProcessorRef,
                   sessionRef, streamRef, nextAudioStartTime, playVars, isAiSpeaking, sourcesRef,
                   procNode,
                   onaudioprocess, micTrack, audioCtx, inputCtx, pendingSends,
                   pendingDecodes, appVars, completions, disconnectCalls, lastShutdown,
                   ticks, warnings, elapsedSinceTermination, frames, voiceVars, sends, termVars>>

(***************************************************************************)
(* Time                                                                    *)
(***************************************************************************)
\* one unit (1000 ms) passes: every pending timeout is one unit nearer
AdvanceTime ==
    /\ graceTimers' = [i \in DOMAIN graceTimers |->
                          [graceTimers[i] EXCEPT !.left = Max(graceTimers[i].left - 1, 0)]]
    /\ elapsedSinceTermination' =
          IF terminationTriggered
          THEN Min(elapsedSinceTermination + 1, GraceDelay)
          ELSE elapsedSinceTermination
    /\ UNCHANGED <<status, timeLeft, systemMessageStatus, isMounted,
                   terminationTriggered, tabSwitchCount, fullTranscriptHistory,
                   nextAudioStartTime, playVars, isAiSpeaking, initPc, pendingSends, pendingDecodes,
                   appVars,
                   completions, terminations, ticks, warnings, lenAtTermination,
                   frames, voiceVars, sends, resourceVars>>

(***************************************************************************)
(* Proctoring: countdown and focus loss                                    *)
(***************************************************************************)
\* faulty variant of the interval: the countdown runs only while the session
\* is connected
TickWhenConnected ==
    /\ isMounted
    /\ status = "connected"
    /\ ticks' = Min(ticks + 1, TickCap)
    /\ IF timeLeft <= 1
       THEN /\ handleTermination(systemMessageStatus, TimeLimitReason)
            /\ timeLeft' = 0
       ELSE /\ noTermination(systemMessageStatus)
            /\ timeLeft' = timeLeft - 1
    /\ UNCHANGED <<status, isMounted, tabSwitchCount, fullTranscriptHistory,
                   nextAudioStartTime, playVars, isAiSpeaking, initPc, pendingSends, pendingDecodes,
                   appVars,
                   completions, warnings, elapsedSinceTermination, frames, voiceVars, sends,
                   resourceVars>>

\* faulty variant of the interval callback: the updater returns prev - 1
\* without the floor at 0
TickUnclamped ==
    /\ isMounted
    /\ ticks' = Min(ticks + 1, TickCap)
    /\ IF timeLeft <= 1
       THEN handleTermination(systemMessageStatus, TimeLimitReason)
       ELSE noTermination(systemMessageStatus)
    /\ timeLeft' = timeLeft - 1
    /\ UNCHANGED <<status, isMounted, tabSwitchCount, fullTranscriptHistory,
                   nextAudioStartTime, playVars, isAiSpeaking, initPc, pendingSends, pendingDecodes,
                   appVars,
                   completions, warnings, elapsedSinceTermination, frames, voiceVars, sends,
                   resourceVars>>

\* faulty variant of the interval callback: prev <= 0 for prev <= 1
TickLate ==
    /\ isMounted
    /\ ticks' = Min(ticks + 1, TickCap)
    /\ IF timeLeft <= 0
       THEN /\ handleTermination(systemMessageStatus, TimeLimitReason)
            /\ timeLeft' = 0
       ELSE /\ noTermination(systemMessageStatus)
            /\ timeLeft' = timeLeft - 1
    /\ UNCHANGED <<status, isMounted, tabSwitchCount, fullTranscriptHistory,
                   nextAudioStartTime, playVars, isAiSpeaking, initPc, pendingSends, pendingDecodes,
                   appVars,
                   completions, warnings, elapsedSinceTermination, frames, voiceVars, sends,
                   resourceVars>>

\* the setInterval callback: setTimeLeft(prev => ...)
Tick ==
    /\ isMounted
    /\ ticks' = Min(ticks + 1, TickCap)
    /\ IF timeLeft <= 1
       THEN /\ handleTermination(systemMessageStatus, TimeLimitReason)
            /\ timeLeft' = 0
       ELSE /\ noTermination(systemMessageStatus)
            /\ timeLeft' = timeLeft - 1
    /\ UNCHANGED <<status, isMounted, tabSwitchCount, fullTranscriptHistory,
                   nextAudioStartTime, playVars, isAiSpeaking, initPc, pendingSends, pendingDecodes,
                   appVars,
                   completions, warnings, elapsedSinceTermination, frames, voiceVars, sends,
                   resourceVars>>

\* faulty variant of handleVisibilityChange: > 3 for >= 3
VisibilityChangeStrict(hidden) ==
    /\ isMounted
    /\ IF hidden
       THEN /\ tabSwitchCount < MaxTabSwitch
            /\ tabSwitchCount' = tabSwitchCount + 1
            /\ warnings' = warnings + 1
            /\ IF tabSwitchCount + 1 > TabSwitchLimit
               THEN handleTermination(WarningMessage(tabSwitchCount + 1), TabSwitchReason)
               ELSE noTermination(WarningMessage(tabSwitchCount + 1))
       ELSE /\ noTermination(systemMessageStatus)
            /\ UNCHANGED <<tabSwitchCount, warnings>>
    /\ UNCHANGED <<status, timeLeft, isMounted, fullTranscriptHistory,
                   nextAudioStartTime, playVars, isAiSpeaking, initPc, pendingSends, pendingDecodes,
                   appVars, completions, ticks, elapsedSinceTermination, frames, voiceVars, sends,
                   resourceVars>>

\* handleVisibilityChange, with document.hidden = hidden
VisibilityChange(hidden) ==
    /\ isMounted
    /\ IF hidden
       THEN /\ tabSwitchCount < MaxTabSwitch
            /\ tabSwitchCount' = tabSwitchCount + 1
            /\ warnings' = warnings + 1
            /\ IF tabSwitchCount + 1 >= TabSwitchLimit
               THEN handleTermination(WarningMessage(tabSwitchCount + 1), TabSwitchReason)
               ELSE noTermination(WarningMessage(tabSwitchCount + 1))
       ELSE /\ noTermination(systemMessageStatus)
            /\ UNCHANGED <<tabSwitchCount, warnings>>
    /\ UNCHANGED <<status, timeLeft, isMounted, fullTranscriptHistory,
                   nextAudioStartTime, playVars, isAiSpeaking, initPc, pendingSends, pendingDecodes,
                   appVars, completions, ticks, elapsedSinceTermination, frames, voiceVars, sends,
                   resourceVars>>

\* the End Interview button: onClick={() => handleTermination("User ended session")}
EndClick ==
    /\ isMounted
    /\ handleTermination(systemMessageStatus, UserEndReason)
    /\ UNCHANGED <<status, timeLeft, isMounted, tabSwitchCount, fullTranscriptHistory,
                   nextAudioStartTime, playVars, isAiSpeaking, initPc, pendingSends, pendingDecodes,
                   appVars, completions, ticks, warnings, elapsedSinceTermination,
                   frames, voiceVars, sends, resourceVars>>

(***************************************************************************)
(* Capture                                                                 *)
(***************************************************************************)
\* faulty variant of the capture callback: a frame exactly at the threshold
\* counts as speech
AudioFrameInclusive(n, rms) ==
    /\ procNode # "none"
    /\ Len(frames) < MaxFrames
    /\ LET handled == onaudioprocess /\ isConnected
           speaking == rms >= SpeechThreshold
           queued == handled /\ n > 0
       IN  /\ frames' = Append(frames, [n |-> n,
                                        terminating |-> terminationTriggered,
                                        mounted |-> isMounted,
                                        queued |-> queued])
           /\ lastUserSpeechTime' = IF handled /\ speaking
                                    THEN Len(frames) + 1 ELSE lastUserSpeechTime
           /\ isUserSpeaking' = IF handled /\ isMounted
                                THEN speaking ELSE isUserSpeaking
           /\ pendingSends' = IF queued /\ initPc = "awaitConnect"
                              THEN pendingSends + 1 ELSE pendingSends
           /\ sends' = IF queued /\ initPc = "done" THEN sends + 1 ELSE sends
    /\ UNCHANGED <<status, timeLeft, systemMessageStatus, isMounted, tabSwitchCount,
                   fullTranscriptHistory, nextAudioStartTime, playVars, isAiSpeaking, initPc,
                   pendingDecodes,
                   appVars, completions, ticks, warnings,
                   elapsedSinceTermination, termVars, resourceVars>>

\* faulty variant of the capture callback: the length of the resampled buffer
\* is not looked at
AudioFrameSendsEmpty(n, rms) ==
    /\ procNode # "none"
    /\ Len(frames) < MaxFrames
    /\ LET handled == onaudioprocess /\ isConnected
           speaking == rms > SpeechThreshold
           queued == handled
       IN  /\ frames' = Append(frames, [n |-> n,
                                        terminating |-> terminationTriggered,
                                        mounted |-> isMounted,
                                        queued |-> queued])
           /\ lastUserSpeechTime' = IF handled /\ speaking
                                    THEN Len(frames) + 1 ELSE lastUserSpeechTime
           /\ isUserSpeaking' = IF handled /\ isMounted
                                THEN speaking ELSE isUserSpeaking
           /\ pendingSends' = IF queued /\ initPc = "awaitConnect"
                              THEN pendingSends + 1 ELSE pendingSends
           /\ sends' = IF queued /\ initPc = "done" THEN sends + 1 ELSE sends
    /\ UNCHANGED <<status, timeLeft, systemMessageStatus, isMounted, tabSwitchCount,
                   fullTranscriptHistory, nextAudioStartTime, playVars, isAiSpeaking, initPc,
                   pendingDecodes,
                   appVars, completions, ticks, warnings,
                   elapsedSinceTermination, termVars, resourceVars>>

\* The capture device produces a frame whose resampled buffer has n samples.
\* Whether a node whose context is closing or whose output was disconnected
\* still raises audioprocess is left to the platform, so the event is possible
\* whenever the node exists; it reaches the handler while one is attached.
\* The handler returns at once unless isConnectedRef is set, and chains the
\* send on the connect promise: the send runs at once when the promise has
\* resolved, waits while it is pending, and never runs when it was rejected.
AudioFrame(n, rms) ==
    /\ procNode # "none"
    /\ Len(frames) < MaxFrames
    /\ LET handled == onaudioprocess /\ isConnected
           speaking == rms > SpeechThreshold
           queued == handled /\ n > 0
       IN  /\ frames' = Append(frames, [n |-> n,
                                        terminating |-> terminationTriggered,
                                        mounted |-> isMounted,
                                        queued |-> queued])
           /\ lastUserSpeechTime' = IF handled /\ speaking
                                    THEN Len(frames) + 1 ELSE lastUserSpeechTime
           /\ isUserSpeaking' = IF handled /\ isMounted
                                THEN speaking ELSE isUserSpeaking
           /\ pendingSends' = IF queued /\ initPc = "awaitConnect"
                              THEN pendingSends + 1 ELSE pendingSends
           /\ sends' = IF queued /\ initPc = "done" THEN sends + 1 ELSE sends
    /\ UNCHANGED <<status, timeLeft, systemMessageStatus, isMounted, tabSwitchCount,
                   fullTranscriptHistory, nextAudioStartTime, playVars, isAiSpeaking, initPc,
                   pendingDecodes,
                   appVars, completions, ticks, warnings,
                   elapsedSinceTermination, termVars, resourceVars>>

(***************************************************************************)
(* Transport events                                                        *)
(***************************************************************************)
ToolCallLists ==
    {<<[name |-> "endInterview", reason |-> r]>> : r \in ArgReasons}
    \cup {<<[name |-> "logNote", reason |-> r]>> : r \in {Undefined, "note"}}
    \cup {<<[name |-> "logNote", reason |-> "note"],
            [name |-> "endInterview", reason |-> r]>> : r \in {Completed, ""}}

NoPart == [kind |-> "none", text |-> <<>>, duration |-> 0]

\* the text deltas that can arrive next
Texts == {TextStream[(Len(fullTranscriptHistory) % Len(TextStream)) + 1]}

\* LiveServerMessage: a tool call, or server content whose first part is text or
\* inline audio, with or without turnComplete
Messages ==
    {[toolCall |-> c, part |-> NoPart, turnComplete |-> FALSE] : c \in ToolCallLists}
    \cup {[toolCall |-> <<>>, part |-> [kind |-> "text", text |-> t, duration |-> 0],
           turnComplete |-> tc] : t \in Texts, tc \in BOOLEAN}
    \cup {[toolCall |-> <<>>, part |-> [kind |-> "audio", text |-> <<>>, duration |-> d],
           turnComplete |-> FALSE] : d \in Durations}
    \cup {[toolCall |-> <<>>, part |-> NoPart, turnComplete |-> TRUE]}

RECURSIVE SumSeq(_)
SumSeq(s) == IF s = <<>> THEN 0 ELSE s[1] + SumSeq(Tail(s))

\* m is inbound audio, and with it the audio delivered so far (scheduled,
\* awaiting its decode, or dropped, a dropped unit counting as one unit) stays
\* within limit
AudioWithin(limit, m) ==
    /\ m.part.kind = "audio"
    /\ nextAudioStartTime + SumSeq(pendingDecodes) + decodeErrors + m.part.duration
          <= limit

\* faulty variant of the handler: while a decode is awaited, an event of
\* another kind waits for it
OnMessageAfterDecode(m) ==
    /\ channel \in {"open", "closing"}
    /\ m.part.kind = "text" => Len(fullTranscriptHistory) < MaxTranscript
    /\ m.part.kind # "audio" => pendingDecodes = <<>>
    /\ IF ~isMounted
       THEN UNCHANGED <<systemMessageStatus, fullTranscriptHistory, pendingDecodes,
                        isAiSpeaking, termVars>>
       ELSE /\ LET call == FindEndInterview(m.toolCall)
               IN  IF call.found
                   THEN handleTermination(systemMessageStatus, ReasonOf(call.reason))
                   ELSE noTermination(systemMessageStatus)
            /\ fullTranscriptHistory' =
                  IF m.part.kind = "text"
                  THEN push(fullTranscriptHistory, AiLine(m.part.text))
                  ELSE fullTranscriptHistory
            /\ isAiSpeaking' =
                  IF m.turnComplete THEN FALSE
                  ELSE IF m.part.kind = "text" THEN TRUE
                  ELSE isAiSpeaking
            /\ pendingDecodes' =
                  IF m.part.kind = "audio"
                  THEN Append(pendingDecodes, m.part.duration)
                  ELSE pendingDecodes
    /\ UNCHANGED <<status, timeLeft, isMounted, tabSwitchCount, nextAudioStartTime, playVars,
                   initPc, pendingSends, appVars, completions, ticks, warnings,
                   elapsedSinceTermination, frames, voiceVars, sends, resourceVars>>

\* callbacks.onmessage, up to its await of the audio decode
OnMessage(m) ==
    /\ channel \in {"open", "closing"}
    /\ m.part.kind = "text" => Len(fullTranscriptHistory) < MaxTranscript
    /\ IF ~isMounted
       THEN UNCHANGED <<systemMessageStatus, fullTranscriptHistory, pendingDecodes,
                        isAiSpeaking, termVars>>
       ELSE /\ LET call == FindEndInterview(m.toolCall)
               IN  IF call.found
                   THEN handleTermination(systemMessageStatus, ReasonOf(call.reason))
                   ELSE noTermination(systemMessageStatus)
            /\ fullTranscriptHistory' =
                  IF m.part.kind = "text"
                  THEN push(fullTranscriptHistory, AiLine(m.part.text))
                  ELSE fullTranscriptHistory
            /\ isAiSpeaking' =
                  IF m.turnComplete THEN FALSE
                  ELSE IF m.part.kind = "text" THEN TRUE
                  ELSE isAiSpeaking
            /\ pendingDecodes' =
                  IF m.part.kind = "audio"
                  THEN Append(pendingDecodes, m.part.duration)
                  ELSE pendingDecodes
    /\ UNCHANGED <<status, timeLeft, isMounted, tabSwitchCount, nextAudioStartTime, playVars,
                   initPc, pendingSends, appVars, completions, ticks, warnings,
                   elapsedSinceTermination, frames, voiceVars, sends, resourceVars>>

\* faulty variant of the continuation: the next start time is not advanced
DecodeSettledNoAdvance(i, ok) ==
    /\ i \in DOMAIN pendingDecodes
    /\ pendingDecodes' = RemoveAt(pendingDecodes, i)
    /\ nextAudioStartTime' = nextAudioStartTime
    /\ scheduled' =
          IF ok /\ Len(scheduled) < 3
          THEN Append(scheduled, [when |-> nextAudioStartTime,
                                  begin |-> Max(nextAudioStartTime, currentTime),
                                  duration |-> pendingDecodes[i],
                                  afterError |-> decodeErrors > 0,
                                  overtook |-> i > 1,
                                  ended |-> FALSE])
          ELSE scheduled
    /\ decodeErrors' = IF ok THEN decodeErrors ELSE decodeErrors + 1
    /\ isAiSpeaking' = IF ok THEN TRUE ELSE isAiSpeaking
    /\ UNCHANGED <<status, timeLeft, systemMessageStatus, isMounted, tabSwitchCount,
                   fullTranscriptHistory, currentTime, initPc, pendingSends, appVars,
                   completions, ticks, warnings, elapsedSinceTermination, frames, voiceVars, sends,
                   termVars, resourceVars>>

\* faulty variant of the continuation: a failed decode ends the session
DecodeSettledFatal(i, ok) ==
    /\ i \in DOMAIN pendingDecodes
    /\ pendingDecodes' = IF ok THEN RemoveAt(pendingDecodes, i) ELSE <<>>
    /\ nextAudioStartTime' =
          IF ok THEN nextAudioStartTime + pendingDecodes[i] ELSE nextAudioStartTime
    /\ scheduled' =
          IF ok
          THEN Append(scheduled, [when |-> nextAudioStartTime,
                                  begin |-> Max(nextAudioStartTime, currentTime),
                                  duration |-> pendingDecodes[i],
                                  afterError |-> decodeErrors > 0,
                                  overtook |-> i > 1,
                                  ended |-> FALSE])
          ELSE scheduled
    /\ decodeErrors' = IF ok THEN decodeErrors ELSE decodeErrors + 1
    /\ isAiSpeaking' = IF ok THEN TRUE ELSE isAiSpeaking
    /\ IF ok
       THEN noTermination(systemMessageStatus)
       ELSE handleTermination(systemMessageStatus, "Decode Error")
    /\ UNCHANGED <<status, timeLeft, isMounted, tabSwitchCount,
                   fullTranscriptHistory, currentTime, initPc, pendingSends, appVars,
                   completions, ticks, warnings, elapsedSinceTermination, frames, voiceVars, sends,
                   resourceVars>>

\* The decode awaited by onmessage settles, for the i-th of the pending
\* decodes (the specifications choose whether decodes settle in the order in
\* which they were started).  On success the unit is started with
\* src.start(nextAudioStartTimeRef.current), the ref advances by the
\* duration of the unit and isAiSpeakingRef is set; a start time that is
\* already past makes the unit begin at the current output clock.  On failure
\* the rest of the handler is skipped.  The continuation does not look at
\* isMountedRef.
DecodeSettled(i, ok) ==
    /\ i \in DOMAIN pendingDecodes
    /\ pendingDecodes' = RemoveAt(pendingDecodes, i)
    /\ nextAudioStartTime' =
          IF ok THEN nextAudioStartTime + pendingDecodes[i] ELSE nextAudioStartTime
    /\ scheduled' =
          IF ok
          THEN Append(scheduled, [when |-> nextAudioStartTime,
                                  begin |-> Max(nextAudioStartTime, currentTime),
                                  duration |-> pendingDecodes[i],
                                  afterError |-> decodeErrors > 0,
                                  overtook |-> i > 1,
                                  ended |-> FALSE])
          ELSE scheduled
    /\ decodeErrors' = IF ok THEN decodeErrors ELSE decodeErrors + 1
    /\ isAiSpeaking' = IF ok THEN TRUE ELSE isAiSpeaking
    /\ UNCHANGED <<status, timeLeft, systemMessageStatus, isMounted, tabSwitchCount,
                   fullTranscriptHistory, currentTime, initPc, pendingSends, appVars,
                   completions, ticks, warnings, elapsedSinceTermination, frames, voiceVars, sends,
                   termVars, resourceVars>>

\* src.onended of the k-th started unit: the unit has played to its end on a
\* running context.  The flag is cleared when the output clock has reached
\* the next start time.
SourceEnded(k) ==
    /\ k \in DOMAIN scheduled
    /\ audioCtx = "running"
    /\ ~scheduled[k].ended
    /\ scheduled[k].begin + scheduled[k].duration <= currentTime
    /\ scheduled' = [scheduled EXCEPT ![k].ended = TRUE]
    /\ isAiSpeaking' = IF currentTime >= nextAudioStartTime THEN FALSE ELSE isAiSpeaking
    /\ UNCHANGED <<status, timeLeft, systemMessageStatus, isMounted, tabSwitchCount,
                   fullTranscriptHistory, nextAudioStartTime, currentTime, decodeErrors,
                   initPc, pendingSends, pendingDecodes, appVars, completions, ticks,
                   warnings, elapsedSinceTermination, frames, voiceVars, sends, termVars,
                   resourceVars>>

\* the clock of the output context advances by one unit while the context runs
OutputClockAdvance ==
    /\ audioCtx = "running"
    /\ currentTime < MaxClock
    /\ currentTime' = currentTime + 1
    /\ UNCHANGED <<status, timeLeft, systemMessageStatus, isMounted, tabSwitchCount,
                   fullTranscriptHistory, nextAudioStartTime, scheduled, decodeErrors,
                   isAiSpeaking, initPc, pendingSends, pendingDecodes, appVars, completions, ticks,
                   warnings, elapsedSinceTermination, frames, voiceVars, sends, termVars,
                   resourceVars>>

\* callbacks.onerror: setStatus('error')
OnError ==
    /\ channel \in {"open", "closing"}
    /\ status' = IF isMounted THEN "error" ELSE status
    /\ UNCHANGED <<timeLeft, systemMessageStatus, isMounted, tabSwitchCount,
                   fullTranscriptHistory, nextAudioStartTime, playVars, isAiSpeaking, initPc,
                   pendingSends,
                   pendingDecodes, appVars, completions, ticks, warnings,
                   elapsedSinceTermination, frames, voiceVars, sends, termVars, resourceVars>>

\* callbacks.onclose: setStatus('error'); the channel was closed by the peer or
\* by sessionRef.current.close()
OnClose ==
    /\ channel \in {"open", "closing"}
    /\ channel' = "closed"
    /\ status' = IF isMounted THEN "error" ELSE status
    /\ UNCHANGED <<timeLeft, systemMessageStatus, isMounted, terminationTriggered,
                   isConnected, tabSwitchCount, fullTranscriptHistory,
                   scriptProcessorRef, sessionRef, streamRef, nextAudioStartTime, playVars,
                   isAiSpeaking,
                   sourcesRef, procNode, onaudioprocess, micTrack, audioCtx, inputCtx,
                   initPc, pendingSends, pendingDecodes, graceTimers, appVars,
                   completions, terminations, disconnectCalls, lastShutdown, ticks, warnings,
                   elapsedSinceTermination, lenAtTermination, frames, voiceVars, sends>>

(***************************************************************************)
(* App: the completion handoff and the result                              *)
(***************************************************************************)
\* passed: (data.rating || 0) > 6
PassMark == 6

\* what generateContent can answer: the rating and the feedback of the parsed
\* JSON, each of which may be absent (the rating is <<>> then)
Evaluations ==
    {[rating |-> r, feedback |-> f] :
        r \in {<<>>, <<PassMark>>, <<PassMark + 1>>},
        f \in {Undefined, "Good answers."}}

\* faulty variant of the disqualification check: a user-requested end counts
\* as a completed interview
IsDisqualifiedUnlessUserEnded(terminationReason) ==
    /\ terminationReason \notin {Undefined, ""}
    /\ terminationReason \notin {Completed, UserEndReason}

\* terminationReason && terminationReason !== "Completed"
IsDisqualified(terminationReason) ==
    /\ terminationReason \notin {Undefined, ""}
    /\ terminationReason # Completed

\* the result set by the timeout of the disqualification branch
TerminatedResult(terminationReason) ==
    [rating |-> 0,
     feedback |-> "Interview terminated early by proctoring system.",
     passed |-> FALSE,
     questions |-> <<>>,
     terminationReason |-> terminationReason]

\* the result set by the timeout of the branch without an API key
DemoResult ==
    [rating |-> PassMark + 1,
     feedback |-> "Great interview (Demo Mode).",
     passed |-> TRUE,
     questions |-> <<>>,
     terminationReason |-> Undefined]

\* the result set from the parsed answer of generateContent
EvaluatedResult(data) ==
    LET rating == IF data.rating = <<>> THEN 0 ELSE data.rating[1]
    IN  [rating |-> rating,
         feedback |-> IF data.feedback = Undefined
                      THEN "Evaluation complete."
                      ELSE data.feedback,
         passed |-> rating > PassMark,
         questions |-> <<>>,
         terminationReason |-> Undefined]

\* the result set by the catch block
FailedResult ==
    [rating |-> 0,
     feedback |-> "Evaluation failed.",
     passed |-> FALSE,
     questions |-> <<>>,
     terminationReason |-> Undefined]

\* handleInterviewComplete up to its first suspension: the step becomes
\* EVALUATING; a disqualifying reason arms the 1500 ms timeout, a missing API
\* key the 2000 ms timeout, otherwise generateContent is awaited.  The handoff
\* that the continuation belongs to is kept with it.
handleInterviewComplete(terminationReason) ==
    /\ appStep' = "EVALUATING"
    /\ result' = result
    /\ pendingResults' =
          Append(pendingResults,
                 [kind |-> IF IsDisqualified(terminationReason) THEN "terminated"
                           ELSE IF initPc = "returned" THEN "demo"
                           ELSE "evaluate",
                  handoff |-> Len(completions) + 1])

\* faulty variant of the timeout callback: setResult without setStep
ResultTimerFireNoStep(i) ==
    /\ i \in DOMAIN pendingResults
    /\ pendingResults[i].kind \in {"terminated", "demo"}
    /\ result' = <<IF pendingResults[i].kind = "terminated"
                   THEN TerminatedResult(completions[pendingResults[i].handoff].reason)
                   ELSE DemoResult>>
    /\ appStep' = appStep
    /\ pendingResults' = RemoveAt(pendingResults, i)
    /\ UNCHANGED <<status, timeLeft, systemMessageStatus, isMounted, tabSwitchCount,
                   fullTranscriptHistory, nextAudioStartTime, playVars, isAiSpeaking,
                   initPc, pendingSends, pendingDecodes, completions, ticks, warnings,
                   elapsedSinceTermination, frames, voiceVars, sends, termVars,
                   resourceVars>>

\* the setTimeout callback of the disqualification branch or of the branch
\* without an API key: setResult(...), setStep(RESULT).  The timeout is never
\* cleared; it fires some time after it was armed.
ResultTimerFire(i) ==
    /\ i \in DOMAIN pendingResults
    /\ pendingResults[i].kind \in {"terminated", "demo"}
    /\ result' = <<IF pendingResults[i].kind = "terminated"
                   THEN TerminatedResult(completions[pendingResults[i].handoff].reason)
                   ELSE DemoResult>>
    /\ appStep' = "RESULT"
    /\ pendingResults' = RemoveAt(pendingResults, i)
    /\ UNCHANGED <<status, timeLeft, systemMessageStatus, isMounted, tabSwitchCount,
                   fullTranscriptHistory, nextAudioStartTime, playVars, isAiSpeaking,
                   initPc, pendingSends, pendingDecodes, completions, ticks, warnings,
                   elapsedSinceTermination, frames, voiceVars, sends, termVars,
                   resourceVars>>

\* the continuation after await generateContent: the answer is parsed and
\* becomes the result; a rejected call or an answer that does not parse ends
\* in the catch block.  Either way setStep(RESULT) follows.
EvaluationSettled(i, ok, data) ==
    /\ i \in DOMAIN pendingResults
    /\ pendingResults[i].kind = "evaluate"
    /\ result' = <<IF ok THEN EvaluatedResult(data) ELSE FailedResult>>
    /\ appStep' = "RESULT"
    /\ pendingResults' = RemoveAt(pendingResults, i)
    /\ UNCHANGED <<status, timeLeft, systemMessageStatus, isMounted, tabSwitchCount,
                   fullTranscriptHistory, nextAudioStartTime, playVars, isAiSpeaking,
                   initPc, pendingSends, pendingDecodes, completions, ticks, warnings,
                   elapsedSinceTermination, frames, voiceVars, sends, termVars,
                   resourceVars>>

(***************************************************************************)
(* End of the session                                                      *)
(***************************************************************************)
\* faulty variant of the timeout callback: the shutdown runs, the handoff is
\* left out
GraceTimerFireNoHandoff(i) ==
    /\ i \in DOMAIN graceTimers
    /\ graceTimers[i].left = 0
    /\ graceTimers' = RemoveAt(graceTimers, i)
    /\ disconnect
    /\ UNCHANGED <<status, timeLeft, systemMessageStatus, isMounted,
                   terminationTriggered, tabSwitchCount, fullTranscriptHistory,
                   nextAudioStartTime, playVars, isAiSpeaking, initPc, pendingSends, pendingDecodes,
                   appVars, completions, terminations, ticks, warnings,
                   elapsedSinceTermination, lenAtTermination, frames, voiceVars, sends>>

\* the setTimeout callback of handleTermination: disconnect(), then
\* onComplete(join, reason); App.handleInterviewComplete sets the step to
\* EVALUATING
GraceTimerFire(i) ==
    /\ i \in DOMAIN graceTimers
    /\ graceTimers[i].left = 0
    /\ graceTimers' = RemoveAt(graceTimers, i)
    /\ disconnect
    /\ completions' = Append(completions,
                             [transcript |-> Join(fullTranscriptHistory),
                              reason |-> graceTimers[i].reason])
    /\ handleInterviewComplete(graceTimers[i].reason)
    /\ UNCHANGED <<status, timeLeft, systemMessageStatus, isMounted,
                   terminationTriggered, tabSwitchCount, fullTranscriptHistory,
                   nextAudioStartTime, playVars, isAiSpeaking, initPc, pendingSends, pendingDecodes,
                   terminations, ticks, warnings, elapsedSinceTermination,
                   lenAtTermination, frames, voiceVars, sends>>

\* faulty variant of the effect cleanup: disconnect() is left out
UnmountWithoutDisconnect ==
    /\ isMounted
    /\ appStep # "INTERVIEW"
    /\ isMounted' = FALSE
    /\ UNCHANGED <<status, timeLeft, systemMessageStatus, tabSwitchCount,
                   fullTranscriptHistory, nextAudioStartTime, playVars, isAiSpeaking, initPc,
                   pendingSends,
                   pendingDecodes, appVars, completions, ticks, warnings,
                   elapsedSinceTermination, frames, voiceVars, sends, termVars, resourceVars>>

\* App stops rendering InterviewSession once the step has left INTERVIEW; the
\* effect cleanup runs: isMountedRef, clearInterval, removeEventListener,
\* disconnect()
Unmount ==
    /\ isMounted
    /\ appStep # "INTERVIEW"
    /\ isMounted' = FALSE
    /\ disconnect
    /\ UNCHANGED <<status, timeLeft, systemMessageStatus, tabSwitchCount,
                   fullTranscriptHistory, nextAudioStartTime, playVars, isAiSpeaking, initPc,
                   pendingSends,
                   pendingDecodes, appVars, completions, ticks, warnings,
                   elapsedSinceTermination, frames, voiceVars, sends, termVars>>

(***************************************************************************)
(* The end of the session on a platform where one release call of the      *)
(* shutdown sequence throws                                                *)
(***************************************************************************)
\* the setTimeout callback when a release call of disconnect() throws: an
\* exception that leaves disconnect() leaves the callback too, before
\* onComplete
GraceTimerFireFault(i, fault) ==
    /\ i \in DOMAIN graceTimers
    /\ graceTimers[i].left = 0
    /\ fault \in FaultSteps
    /\ StepDue(fault)
    /\ graceTimers' = RemoveAt(graceTimers, i)
    /\ disconnectWith(fault)
    /\ IF fault \in GuardedSteps
       THEN /\ completions' = Append(completions,
                                     [transcript |-> Join(fullTranscriptHistory),
                                      reason |-> graceTimers[i].reason])
            /\ handleInterviewComplete(graceTimers[i].reason)
       ELSE UNCHANGED <<completions, appVars>>
    /\ UNCHANGED <<status, timeLeft, systemMessageStatus, isMounted,
                   terminationTriggered, tabSwitchCount, fullTranscriptHistory,
                   nextAudioStartTime, playVars, isAiSpeaking, initPc, pendingSends, pendingDecodes,
                   terminations, ticks, warnings, elapsedSinceTermination,
                   lenAtTermination, frames, voiceVars, sends>>

\* the effect cleanup when a release call of disconnect() throws
UnmountFault(fault) ==
    /\ isMounted
    /\ appStep # "INTERVIEW"
    /\ fault \in FaultSteps
    /\ StepDue(fault)
    /\ isMounted' = FALSE
    /\ disconnectWith(fault)
    /\ UNCHANGED <<status, timeLeft, systemMessageStatus, tabSwitchCount,
                   fullTranscriptHistory, nextAudioStartTime, playVars, isAiSpeaking, initPc,
                   pendingSends, pendingDecodes, appVars, completions, ticks, warnings,
                   elapsedSinceTermination, frames, voiceVars, sends, termVars>>

(***************************************************************************)
(* The end of the session when the close of an audio context has not       *)
(* settled by the time the next callback runs                              *)
(***************************************************************************)
\* the setTimeout callback; the contexts it closes still show their old state
GraceTimerFireClosing(i) ==
    /\ i \in DOMAIN graceTimers
    /\ graceTimers[i].left = 0
    /\ graceTimers' = RemoveAt(graceTimers, i)
    /\ disconnectClose("none", "closing")
    /\ completions' = Append(completions,
                             [transcript |-> Join(fullTranscriptHistory),
                              reason |-> graceTimers[i].reason])
    /\ handleInterviewComplete(graceTimers[i].reason)
    /\ UNCHANGED <<status, timeLeft, systemMessageStatus, isMounted,
                   terminationTriggered, tabSwitchCount, fullTranscriptHistory,
                   nextAudioStartTime, playVars, isAiSpeaking, initPc, pendingSends,
                   pendingDecodes, terminations, ticks, warnings,
                   elapsedSinceTermination, lenAtTermination, frames, voiceVars, sends>>

\* the effect cleanup; the contexts it closes still show their old state
UnmountClosing ==
    /\ isMounted
    /\ appStep # "INTERVIEW"
    /\ isMounted' = FALSE
    /\ disconnectClose("none", "closing")
    /\ UNCHANGED <<status, timeLeft, systemMessageStatus, tabSwitchCount,
                   fullTranscriptHistory, nextAudioStartTime, playVars, isAiSpeaking, initPc,
                   pendingSends, pendingDecodes, appVars, completions, ticks, warnings,
                   elapsedSinceTermination, frames, voiceVars, sends, termVars>>

\* the close of the output (output = TRUE) or input context settles: its
\* state attribute becomes 'closed'
CloseSettled(output) ==
    /\ IF output
       THEN /\ audioCtx = "closing"
            /\ audioCtx' = "closed"
            /\ inputCtx' = inputCtx
       ELSE /\ inputCtx = "closing"
            /\ inputCtx' = "closed"
            /\ audioCtx' = audioCtx
    /\ UNCHANGED <<status, timeLeft, systemMessageStatus, isMounted, tabSwitchCount,
                   fullTranscriptHistory, nextAudioStartTime, playVars, isAiSpeaking, initPc,
                   pendingSends, pendingDecodes, appVars, completions, ticks, warnings,
                   elapsedSinceTermination, frames, voiceVars, sends, termVars,
                   isConnected, scriptProcessorRef, sessionRef, streamRef, sourcesRef,
                   procNode, onaudioprocess, channel, micTrack, disconnectCalls,
                   lastShutdown>>

(***************************************************************************)
(* Specifications                                                          *)
(***************************************************************************)
\* initSession's continuations and the channel opening
SetupNext ==
    \/ \E throws \in BOOLEAN : MicGranted(throws)
    \/ MicDenied
    \/ OnOpen
    \/ ConnectResolved
    \/ ConnectRejected

\* the countdown, focus loss and the End button
ProctorNext ==
    \/ AdvanceTime
    \/ Tick
    \/ \E hidden \in BOOLEAN : VisibilityChange(hidden)
    \/ EndClick

\* the grace timer and the unmount that follows the handoff
EndNext ==
    \/ \E i \in 1..2 : GraceTimerFire(i)
    \/ Unmount

\* tool calls, text and turn completion, transport error and close
TransportNext ==
    \/ \E m \in Messages : m.part.kind # "audio" /\ OnMessage(m)
    \/ OnError
    \/ OnClose

\* inbound audio and its decode
PlaybackNext ==
    \/ \E m \in Messages : AudioWithin(MaxAudioTime, m) /\ OnMessage(m)
    \/ \E ok \in BOOLEAN : DecodeSettled(1, ok)

\* the same with a longer stretch of inbound audio
LongPlaybackNext ==
    \/ \E m \in Messages : AudioWithin(MaxPlayback, m) /\ OnMessage(m)
    \/ \E ok \in BOOLEAN : DecodeSettled(1, ok)

\* microphone frames
CaptureNext == \E n \in 0..1, rms \in RmsLevels : AudioFrame(n, rms)

Next == SetupNext \/ ProctorNext \/ EndNext \/ TransportNext

\* the session late in its countdown: setup, every termination trigger, text
\* and transport events, the grace timer and the unmount
Spec == LateInit /\ [][Next]_vars

\* the tool calls of the fair specification: endInterview without a reason,
\* and a call of another name
LiveToolCalls ==
    {<<[name |-> "endInterview", reason |-> Undefined]>>,
     <<[name |-> "logNote", reason |-> "note"]>>}

\* tool calls, turn completion and a shorter stretch of text, transport error
\* and close
LiveTransportNext ==
    \/ \E m \in Messages :
          /\ m.part.kind # "audio"
          /\ m.part.kind = "text" => Len(fullTranscriptHistory) < MaxLiveTranscript
          /\ m.toolCall # <<>> => m.toolCall \in LiveToolCalls
          /\ OnMessage(m)
    \/ OnError
    \/ OnClose

\* inbound audio whose decode succeeds
LivePlaybackNext ==
    \/ \E m \in Messages : AudioWithin(MaxAudioTime, m) /\ OnMessage(m)
    \/ DecodeSettled(1, TRUE)

\* the session with inbound audio, under the fairness the event loop gives:
\* time passes, and a timeout that is due is run
LiveNext ==
    SetupNext \/ ProctorNext \/ EndNext \/ LiveTransportNext \/ LivePlaybackNext

Fairness == WF_vars(AdvanceTime) /\ WF_vars(\E i \in 1..2 : GraceTimerFire(i))

LiveSpec == LateInit /\ [][LiveNext]_vars /\ Fairness

\* the interval is cleared only by the unmount: its callback keeps being run
TimerFairness == Fairness /\ WF_vars(Tick)

\* the session whose countdown is fairly run
CountdownSpec == LateInit /\ [][Next]_vars /\ TimerFairness

\* the session with its microphone: setup, triggers, frames, shutdown
CaptureSpecNext == SetupNext \/ ProctorNext \/ EndNext \/ CaptureNext \/ OnClose

CaptureSpec == LateInit /\ [][CaptureSpecNext]_vars

\* the freshly mounted session with the whole countdown ahead
TimerNext == ProctorNext \/ EndNext

TimerSpec == Init /\ [][TimerNext]_vars

\* the session with its loudspeaker: setup, inbound audio and its decodes, the
\* output clock, the End button, the grace timer and the unmount
PlaybackSpecNext ==
    \/ SetupNext
    \/ LongPlaybackNext
    \/ OutputClockAdvance
    \/ AdvanceTime
    \/ EndClick
    \/ EndNext

PlaybackSpec == LateInit /\ [][PlaybackSpecNext]_vars

\* the conversation: setup, every inbound event, the end of playback of a
\* started unit, the output clock, the End button, the grace timer and the
\* unmount
DialogueSpecNext ==
    \/ SetupNext
    \/ TransportNext
    \/ PlaybackNext
    \/ \E k \in 1..MaxPlayback : SourceEnded(k)
    \/ OutputClockAdvance
    \/ AdvanceTime
    \/ EndClick
    \/ EndNext

DialogueSpec == LateInit /\ [][DialogueSpecNext]_vars

\* the two voices of the conversation: the candidate's captured frames and
\* every inbound event of the agent, with the End button, the grace timer and
\* the unmount
TranscriptSpecNext ==
    \/ SetupNext
    \/ TransportNext
    \/ AudioFrame(1, SpeechThreshold + 1)
    \/ AdvanceTime
    \/ EndClick
    \/ EndNext

TranscriptSpec == LateInit /\ [][TranscriptSpecNext]_vars

\* the continuations of App.handleInterviewComplete
AppNext ==
    \/ \E i \in DOMAIN pendingResults : ResultTimerFire(i)
    \/ \E i \in DOMAIN pendingResults, ok \in BOOLEAN, data \in Evaluations :
          EvaluationSettled(i, ok, data)

\* the session together with the application shell that receives its handoff
AppSpecNext == Next \/ AppNext

\* a due timeout callback runs, and the awaited generateContent call settles
AppFairness == WF_vars(AppNext)

AppSpec == LateInit /\ [][AppSpecNext]_vars /\ AppFairness

\* inbound audio whose decodes settle in any order
RacingPlaybackNext ==
    \/ \E m \in Messages : AudioWithin(MaxPlayback, m) /\ OnMessage(m)
    \/ \E i \in 1..MaxPlayback, ok \in BOOLEAN : DecodeSettled(i, ok)

\* the loudspeaker when a later decode may settle before an earlier one
DecodeRaceSpecNext ==
    \/ SetupNext
    \/ RacingPlaybackNext
    \/ OutputClockAdvance
    \/ AdvanceTime
    \/ EndClick
    \/ EndNext

DecodeRaceSpec == LateInit /\ [][DecodeRaceSpecNext]_vars

\* a release call of the shutdown sequence throws
FaultNext ==
    \/ \E i \in 1..2, fault \in FaultSteps : GraceTimerFireFault(i, fault)
    \/ \E fault \in FaultSteps : UnmountFault(fault)

\* the session on a platform whose release calls may throw
FaultSpecNext == SetupNext \/ ProctorNext \/ EndNext \/ FaultNext \/ OnClose

FaultSpec == LateInit /\ [][FaultSpecNext]_vars

\* the end of the session with closes that settle late
ClosingNext ==
    \/ \E i \in 1..2 : GraceTimerFireClosing(i)
    \/ UnmountClosing
    \/ \E output \in BOOLEAN : CloseSettled(output)

\* the session on a platform where the close of a context takes its time
CloseSpecNext == SetupNext \/ ProctorNext \/ ClosingNext \/ OnClose

CloseSpec == LateInit /\ [][CloseSpecNext]_vars

(***************************************************************************)
(* Lifecycle state of the session, derived                                 *)
(***************************************************************************)
Ended == completions # <<>>

Terminating == terminationTriggered /\ ~Ended

Range(s) == {s[i] : i \in DOMAIN s}

(***************************************************************************)
(* Properties                                                              *)
(***************************************************************************)
\* C1: whatever termination triggers fire and in whatever order, Terminating
\* is entered at most once (the flag is set exactly when one reason has been
\* recorded), exactly one grace timer or handoff exists for the recorded
\* reason, and onComplete is invoked at most once.
C1_TerminatingEnteredOnce ==
    /\ Len(terminations) <= 1
    /\ terminationTriggered <=> Len(terminations) = 1
    /\ Len(graceTimers) + Len(completions) = Len(terminations)
    /\ Len(completions) <= 1

\* the End button won, the timeout tick and the third focus loss fired as well,
\* and the session has been handed over
C1_Witness ==
    /\ terminations = <<UserEndReason>>
    /\ timeLeft = 0
    /\ tabSwitchCount >= 3
    /\ Len(completions) = 1

\* C2 (as stated): over the whole lifetime of the session disconnect() is run
\* exactly once.
C2_ShutdownRunsOnce ==
    /\ disconnectCalls <= 1
    /\ ~isMounted => disconnectCalls = 1

\* C2 (amended): disconnect() is run once by the grace-timer callback of the
\* single winning trigger and once more by the unmount cleanup that follows
\* onComplete, twice in all; shutdown never starts before the handoff.
C2_ShutdownRunsTwice ==
    /\ disconnectCalls = Len(completions) + (IF isMounted THEN 0 ELSE 1)
    /\ Len(completions) <= 1
    /\ ~isMounted => disconnectCalls = 2

\* the tool call won, the timeout tick fired too, and the session is unmounted
C2_Witness ==
    /\ ~isMounted
    /\ disconnectCalls = 2
    /\ terminations = <<Completed>>
    /\ timeLeft = 0

\* C3: the first trigger wins.  Once Terminating has been entered no step
\* changes the recorded reason, arms another grace timer or postpones the
\* pending one, and every handoff carries the first recorded reason.
C3_FirstTriggerWins ==
    [][/\ terminationTriggered =>
            /\ terminationTriggered'
            /\ terminations' = terminations
            /\ Len(graceTimers') <= Len(graceTimers)
            /\ \A i \in DOMAIN graceTimers' :
                  /\ graceTimers'[i].reason = terminations[1]
                  /\ graceTimers'[i].left <= graceTimers[i].left
            /\ Len(graceTimers') + Len(completions') = 1
       /\ \A i \in DOMAIN completions' : completions'[i].reason = terminations'[1]
      ]_vars

\* the third focus loss won, the timeout tick fired later, and the handoff
\* carried the proctoring reason
C3_Witness ==
    /\ terminations = <<TabSwitchReason>>
    /\ timeLeft = 0
    /\ Len(completions) = 1
    /\ completions[1].reason = TabSwitchReason

\* C4: an endInterview tool call that arrives while the session is connected
\* and no trigger has fired enters Terminating with the reason of the call's
\* arguments, "Completed" when that reason is absent or empty; and a handoff
\* of a session so terminated carries exactly the recorded reason.
C4_ToolCallTerminates ==
    [][/\ \A m \in Messages :
            LET call == FindEndInterview(m.toolCall)
            IN  (/\ OnMessage(m)
                 /\ call.found
                 /\ status = "connected"
                 /\ ~terminationTriggered)
                => /\ terminationTriggered'
                   /\ terminations' =
                         <<IF call.reason \in {Undefined, ""}
                           THEN "Completed" ELSE call.reason>>
                   /\ Len(graceTimers') = 1
       /\ (Len(completions') > Len(completions) /\ Len(terminations) = 1)
            => completions'[Len(completions')].reason = terminations[1]
      ]_vars

\* a connected session was ended by a tool call with a reason of its own and
\* handed over with that reason
C4_Witness ==
    /\ terminations = <<"Candidate asked to stop">>
    /\ Len(completions) = 1
    /\ completions[1].reason = "Candidate asked to stop"
    /\ initPc = "done"

\* C5 (as stated): a transport error or close that occurs while the session is
\* connected makes the session enter Terminating.
C5_TransportFailureTerminates ==
    [][((OnError \/ OnClose) /\ status = "connected" /\ isMounted)
          => terminationTriggered']_vars

\* C6: every focus loss increments the counter by one and issues a warning;
\* with no other trigger the first and second focus loss request no
\* termination and the third requests it with the proctoring reason.
C6_FocusLossCounter ==
    [][/\ VisibilityChange(TRUE) =>
            /\ tabSwitchCount' = tabSwitchCount + 1
            /\ warnings' = warnings + 1
            /\ ~terminationTriggered =>
                  /\ tabSwitchCount + 1 < 3 =>
                        /\ ~terminationTriggered'
                        /\ systemMessageStatus' = WarningMessage(tabSwitchCount + 1)
                  /\ tabSwitchCount + 1 = 3 =>
                        /\ terminationTriggered'
                        /\ terminations' = <<TabSwitchReason>>
       /\ VisibilityChange(FALSE) => tabSwitchCount' = tabSwitchCount
       /\ warnings' = tabSwitchCount'
       /\ TabSwitchReason \in Range(terminations') => tabSwitchCount' >= 3
      ]_vars

\* three focus losses, nothing else: the session is terminating for proctoring
C6_Witness ==
    /\ tabSwitchCount = 3
    /\ warnings = 3
    /\ terminations = <<TabSwitchReason>>
    /\ timeLeft > 0

\* C7: with the countdown starting at 600, the remaining time is 600 minus
\* the number of ticks until it reaches 0 and stays 0 afterwards; the timeout
\* reason is never recorded before the 600th tick; from the 600th tick on the
\* session has been terminated, and with no other trigger before it the
\* recorded reason is the timeout reason.
C7_TimeoutOnTick600 ==
    /\ timeLeft = (IF ticks < 600 THEN 600 - ticks ELSE 0)
    /\ TimeLimitReason \in Range(terminations) => ticks >= 600
    /\ ticks >= 600 =>
          /\ terminationTriggered
          /\ Len(terminations) = 1
          /\ terminations[1] \notin {UserEndReason, TabSwitchReason}
                => terminations = <<TimeLimitReason>>
    /\ (ticks < 600 /\ tabSwitchCount < 3 /\ UserEndReason \notin Range(terminations))
          => ~terminationTriggered

\* 600 ticks and no other trigger: terminating for the time limit
C7_Witness ==
    /\ ticks = 600
    /\ timeLeft = 0
    /\ tabSwitchCount = 0
    /\ terminations = <<TimeLimitReason>>
    /\ completions = <<>>

\* position of the j-th line in the newline-join of the lines h
RECURSIVE C8_Offset(_, _)
C8_Offset(h, j) == IF j = 1 THEN 1 ELSE C8_Offset(h, j - 1) + Len(h[j - 1]) + 1

\* t consists of the lines of h, in order, with one "\n" between neighbours
C8_IsNewlineJoin(t, h) ==
    /\ Len(t) = IF h = <<>> THEN 0 ELSE C8_Offset(h, Len(h)) + Len(h[Len(h)]) - 1
    /\ \A j \in DOMAIN h :
          LET at == C8_Offset(h, j)
          IN  /\ SubSeq(t, at, at + Len(h[j]) - 1) = h[j]
              /\ j < Len(h) => t[at + Len(h[j])] = "\n"

\* C8: onComplete is not invoked before the grace period of 2 s has elapsed
\* since Terminating was entered, and the transcript it receives is the
\* newline-join, in arrival order, of every entry appended up to the handoff;
\* a text delta delivered during the grace period is appended like any other.
C8_HandoffAfterGrace ==
    [][/\ Len(completions') > Len(completions) =>
            /\ elapsedSinceTermination >= 2
            /\ Len(fullTranscriptHistory) >= lenAtTermination
            /\ C8_IsNewlineJoin(completions'[Len(completions')].transcript,
                                fullTranscriptHistory)
       /\ \A m \in Messages :
            (OnMessage(m) /\ m.part.kind = "text" /\ Terminating /\ isMounted)
            => fullTranscriptHistory' =
                  Append(fullTranscriptHistory, <<"AI: ">> \o m.part.text)
      ]_vars

\* one entry before termination, one during the grace period, both handed over
C8_Witness ==
    /\ Len(completions) = 1
    /\ lenAtTermination = 1
    /\ completions[1].transcript = <<"AI: ", "hello", "\n", "AI: ", "bye">>

\* C9: under the fairness of the clock and of the grace timer, every session
\* that enters Terminating reaches Ended: the shutdown sequence has run and
\* onComplete has been invoked, whatever events arrive in the meantime.
C9_TerminatingReachesEnded ==
    terminationTriggered ~> (Ended /\ disconnectCalls >= 1)

\* a session that ended although text arrived and the transport closed while
\* it was terminating, with an audio decode still pending
C9_Witness ==
    /\ Ended
    /\ Len(fullTranscriptHistory) > lenAtTermination
    /\ channel = "closed"
    /\ status = "error"
    /\ pendingDecodes # <<>>

\* C10 (as stated): once Terminating has begun no microphone frame, the
\* frames of the grace period included, produces a sendRealtimeInput call.
C10_NoSendOnceTerminating ==
    \A i \in DOMAIN frames : frames[i].terminating => ~frames[i].queued

\* C10 (amended): a microphone frame raised after the session has been
\* unmounted (both runs of the shutdown sequence are over) produces no
\* sendRealtimeInput call, and a frame passed to the handler before the channel
\* opened produces none either; frames of the grace period are still sent.
C10_NoSendAfterUnmount ==
    /\ \A i \in DOMAIN frames : ~frames[i].mounted => ~frames[i].queued
    /\ sends + pendingSends <= Cardinality({i \in DOMAIN frames : frames[i].queued})
    /\ ~isMounted => ~isConnected

\* a frame of the grace period was sent, a frame after the unmount was not
C10_Witness ==
    /\ \E i \in DOMAIN frames :
          frames[i].terminating /\ frames[i].mounted /\ frames[i].queued
    /\ \E i \in DOMAIN frames :
          ~frames[i].mounted /\ frames[i].n > 0 /\ ~frames[i].queued
    /\ sends = 1

\* C11 (as stated): once the session has ended, is unmounted and initSession
\* has finished, every resource it acquired has been released: no live
\* microphone track, no connecting or open channel, no running audio context,
\* also when the shutdown ran while the microphone or the connect was pending.
C11_NoResourceOutlivesSession ==
    (Ended /\ ~isMounted /\ initPc \in {"done", "failed", "returned"})
    => /\ micTrack # "live"
       /\ channel \notin {"connecting", "open"}
       /\ audioCtx # "running"
       /\ inputCtx # "running"

\* C12 (as stated): while the output context runs, the playback intervals of
\* any two scheduled units do not overlap; a unit whose start time is already
\* past begins at the output clock of the moment it is scheduled.
C12_PlaybackNeverOverlaps ==
    audioCtx = "running" =>
        \A i, j \in DOMAIN scheduled :
            i < j => \/ scheduled[i].begin + scheduled[i].duration <= scheduled[j].begin
                     \/ scheduled[j].begin + scheduled[j].duration <= scheduled[i].begin

\* C13: for the audio deltas decoded in their order of delivery, the start
\* time given to the k-th unit is not before that of the unit before it, and
\* is at least the start time of the first unit plus the durations of the
\* units before the k-th.
C13_GaplessOrdering ==
    \A k \in DOMAIN scheduled :
        /\ k > 1 => scheduled[k].when >= scheduled[k - 1].when
        /\ scheduled[k].when >=
              scheduled[1].when + SumSeq([j \in 1..(k - 1) |-> scheduled[j].duration])

\* two units were scheduled, the second one after the output clock had moved on
C13_Witness ==
    /\ Len(scheduled) >= 2
    /\ scheduled[2].when = scheduled[1].when + scheduled[1].duration
    /\ scheduled[2].begin > scheduled[1].begin

\* C14: in every step the transcript before the step is a prefix of the
\* transcript after it, and the k-th entry of the transcript is the line of
\* the k-th text delta delivered, also with inbound audio in between and
\* decodes pending.
C14_TranscriptAppendOnly ==
    [][/\ Len(fullTranscriptHistory') >= Len(fullTranscriptHistory)
       /\ SubSeq(fullTranscriptHistory', 1, Len(fullTranscriptHistory))
             = fullTranscriptHistory
       /\ \A k \in DOMAIN fullTranscriptHistory' :
             fullTranscriptHistory'[k] = <<"AI: ">> \o TextStream[k]
      ]_vars

\* two text deltas are recorded in their order while an audio decode is pending
C14_Witness ==
    /\ fullTranscriptHistory = <<<<"AI: ", "hello">>, <<"AI: ", "bye">>>>
    /\ pendingDecodes # <<>>
    /\ isMounted

\* C15: a toolCall message none of whose function calls is named endInterview
\* changes nothing: not the termination flag, not the recorded reason, not
\* any other part of the state of the session.
C15_OtherToolCallsIgnored ==
    [][\A m \in Messages :
          (/\ OnMessage(m)
           /\ m.toolCall # <<>>
           /\ \A i \in DOMAIN m.toolCall : m.toolCall[i].name # "endInterview")
          => UNCHANGED vars
      ]_vars

\* a connected session with recorded text that has not been terminated: tool
\* calls of other names are delivered to it and leave it as it is
C15_Witness ==
    /\ status = "connected"
    /\ isMounted
    /\ channel = "open"
    /\ initPc = "done"
    /\ ~terminationTriggered
    /\ Len(fullTranscriptHistory) = 1

\* C16: a failed decode drops its unit and nothing else: the next start time,
\* the playback log, the transcript, the status, the status line and the
\* termination state stay as they are; and a unit decoded after a failure is
\* scheduled at the next start time like any other.
C16_DecodeFailureDropsUnit ==
    [][/\ DecodeSettled(1, FALSE) =>
            /\ pendingDecodes' = Tail(pendingDecodes)
            /\ nextAudioStartTime' = nextAudioStartTime
            /\ scheduled' = scheduled
            /\ fullTranscriptHistory' = fullTranscriptHistory
            /\ status' = status
            /\ systemMessageStatus' = systemMessageStatus
            /\ terminationTriggered' = terminationTriggered
            /\ graceTimers' = graceTimers
       /\ (decodeErrors > 0 /\ DecodeSettled(1, TRUE)) =>
            /\ Len(scheduled') = Len(scheduled) + 1
            /\ scheduled'[Len(scheduled')].when = nextAudioStartTime
            /\ nextAudioStartTime' = nextAudioStartTime + pendingDecodes[1]
       /\ (decodeErrors' > decodeErrors) => pendingDecodes' = Tail(pendingDecodes)
      ]_vars

\* a decode failed, a unit delivered with it was scheduled afterwards, and no
\* termination was requested
C16_Witness ==
    /\ decodeErrors = 1
    /\ \E k \in DOMAIN scheduled : scheduled[k].afterError
    /\ ~terminationTriggered
    /\ status = "connected"

\* C17 (as stated): when one release call of the shutdown sequence throws,
\* every other step that was due in that run has still been executed.
C17_CleanupIsDefensive ==
    \A step \in Range(lastShutdown.due) :
        step # lastShutdown.fault => step \in Range(lastShutdown.done)

\* the order of the shutdown steps as the claim lists it: detach the capture
\* callback, close the transport, stop the playback sources, release the
\* capture device, cancel pending timers, release the output device
C18_ListedOrder ==
    <<"detach", "closeTransport", "stopSources", "stopTracks", "cancelAnimation",
      "closeOutput">>

C18_ListedIndex(step) == CHOOSE k \in DOMAIN C18_ListedOrder : C18_ListedOrder[k] = step

\* C18 (as stated): in every run of the shutdown sequence the steps executed
\* follow one another in the listed order.
C18_ShutdownInListedOrder ==
    \A i, j \in DOMAIN lastShutdown.done :
        (/\ i < j
         /\ lastShutdown.done[i] \in Range(C18_ListedOrder)
         /\ lastShutdown.done[j] \in Range(C18_ListedOrder))
        => C18_ListedIndex(lastShutdown.done[i]) < C18_ListedIndex(lastShutdown.done[j])

C20_TerminatingOnlyFromConnected ==
    [][(~terminationTriggered /\ terminationTriggered') => status = "connected"]_vars

\* getUserMedia was rejected: initSession reached its catch block with no
\* stream stored
MicFailed == initPc = "failed" /\ micTrack = "none"

\* C21: once the microphone acquisition has failed, the status of a mounted
\* session is 'error' and never 'connected' again, connect() is never called
\* (the channel does not exist, no session is stored, isConnectedRef stays
\* unset), the capture node is never created and no audio chunk is sent or
\* queued for sending, in every later state of the session.
C21_MicFailureIsTerminal ==
    MicFailed =>
        /\ isMounted => status = "error"
        /\ status # "connected"
        /\ channel = "none"
        /\ ~sessionRef
        /\ ~isConnected
        /\ procNode = "none"
        /\ frames = <<>>
        /\ sends = 0
        /\ pendingSends = 0

\* the microphone was refused, and the session was still ended by one of its
\* triggers, handed over and unmounted, in status 'error' throughout
C21_Witness ==
    /\ MicFailed
    /\ status = "error"
    /\ Ended
    /\ ~isMounted
    /\ disconnectCalls = 2

\* C22: the start time given to every unit is the later of the output clock
\* at the moment of scheduling and the next start time held before it, so no
\* unit is given a start time that is already past.
C22_StartIsMaxOfClockAndNext ==
    \A k \in DOMAIN scheduled : scheduled[k].when = scheduled[k].begin

\* C23: every unit that was started on the running output context and has not
\* played to its end is held in sourcesRef, the set that the shutdown stops
\* and clears; once disconnect() has run, no started unit is left unfinished
\* on a running context and the next start time is not ahead of the clock.
C23_UnfinishedUnitsAreTracked ==
    /\ \A k \in DOMAIN scheduled :
          (audioCtx = "running"
             /\ scheduled[k].begin + scheduled[k].duration > currentTime)
          => k \in sourcesRef
    /\ disconnectCalls > 0 => nextAudioStartTime <= currentTime

\* C24: in every reachable state isAiSpeakingRef is set exactly when the
\* output clock is before the next start time, i.e. while scheduled audio is
\* still to be played.
C24_SpeakingFlagIsDerived ==
    isAiSpeaking = (currentTime < nextAudioStartTime)

\* the resource that a release step acts on has not been released before
C25_Unreleased(step) ==
    CASE step = "detach" -> procNode = "connected"
      [] step = "closeTransport" -> sessionRef
      [] step = "stopTracks" -> micTrack = "live"
      [] step = "closeOutput" -> audioCtx = "running"
      [] step = "closeInput" -> inputCtx = "running"
      [] OTHER -> TRUE

\* C25: every release call that a run of disconnect() makes acts on a
\* resource that no earlier run has released: over the session the capture
\* node is disconnected, the transport closed, the microphone stopped and
\* each audio context closed at most once, and a second run of disconnect()
\* repeats none of these calls.
C25_ReleaseCallsAtMostOnce ==
    [][disconnectCalls' > disconnectCalls =>
          \A step \in Range(lastShutdown'.done) : C25_Unreleased(step)]_vars

\* C26: no unit is started while the decode of a delta delivered before it is
\* still pending: the units are started in the order in which their deltas
\* were delivered, whatever the order in which the decodes settle.
C26_ScheduledInDeliveryOrder ==
    \A k \in DOMAIN scheduled : ~scheduled[k].overtook

\* the handler runs for m, leaves the pending decodes pending and does what
\* the kind of m asks for
C27_Handled(m) ==
    /\ OnMessage(m)
    /\ pendingDecodes' = pendingDecodes
    /\ m.part.kind = "text" =>
          fullTranscriptHistory' = Append(fullTranscriptHistory, AiLine(m.part.text))
    /\ m.turnComplete => ~isAiSpeaking'
    /\ (FindEndInterview(m.toolCall).found /\ ~terminationTriggered) =>
          /\ terminationTriggered'
          /\ terminations' = <<ReasonOf(FindEndInterview(m.toolCall).reason)>>

\* C27: while the decode of an earlier audio delta is still awaited, a text
\* delta, a turn completion or an endInterview tool call delivered to the
\* mounted session can be handled at once, in the callback of its delivery:
\* the line is recorded, the speaking flag is cleared by the turn
\* completion, the termination is entered, and the decode is still pending
\* afterwards.
C27_PendingDecodeDoesNotBlock ==
    (pendingDecodes # <<>> /\ isMounted /\ channel \in {"open", "closing"}) =>
        \A m \in Messages :
            (/\ m.part.kind # "audio"
             /\ m.part.kind = "text" => Len(fullTranscriptHistory) < MaxTranscript)
            => ENABLED C27_Handled(m)

\* the decode of the only audio delta is still pending in a mounted session
\* with an open channel that has recorded a text delta and was ended by a
\* tool call, and a further text delta can be delivered
C27_Witness ==
    /\ pendingDecodes # <<>>
    /\ scheduled = <<>>
    /\ decodeErrors = 0
    /\ isMounted
    /\ channel = "open"
    /\ Len(fullTranscriptHistory) = 1
    /\ terminations = <<Completed>>
    /\ lenAtTermination = 1

\* the capture callback handles the frame: a handler is attached and
\* isConnectedRef is set
C28_Handled == onaudioprocess /\ isConnected

\* C28: for every frame that the capture callback handles in a mounted
\* session, isUserSpeaking becomes true exactly when the root mean square of
\* the frame is strictly above the threshold (false at exactly the
\* threshold); lastUserSpeechTimeRef is set to the time of the frame when the
\* frame is above the threshold, and no other step of the session changes it.
C28_SpeakingIffAboveThreshold ==
    [][/\ \A n \in 0..1, rms \in RmsLevels :
             (C28_Handled /\ AudioFrame(n, rms)) =>
                /\ isMounted => (isUserSpeaking' <=> rms > SpeechThreshold)
                /\ rms = SpeechThreshold => (isMounted => ~isUserSpeaking')
                /\ lastUserSpeechTime' =
                      IF rms > SpeechThreshold
                      THEN Len(frames') ELSE lastUserSpeechTime
       /\ lastUserSpeechTime' # lastUserSpeechTime =>
             \E n \in 0..1, rms \in RmsLevels :
                 C28_Handled /\ AudioFrame(n, rms) /\ rms > SpeechThreshold
      ]_vars

\* the first frame was above the threshold, the second, handled as well, was
\* not: the flag is down and the timestamp is that of the first frame
C28_Witness ==
    /\ Len(frames) = 2
    /\ frames[1].queued
    /\ frames[2].queued
    /\ lastUserSpeechTime = 1
    /\ ~isUserSpeaking
    /\ isMounted

\* C29: a frame that the capture callback handles causes exactly one send
\* (made at once, or queued on the pending connect promise) when its resampled
\* buffer is not empty and none when it is empty; a frame that the callback
\* does not handle causes none, and no other step of the session adds a send.
C29_OneSendPerNonEmptyFrame ==
    [][/\ \A n \in 0..1, rms \in RmsLevels :
             AudioFrame(n, rms) =>
                sends' + pendingSends' =
                   sends + pendingSends
                      + (IF onaudioprocess /\ isConnected /\ n > 0 THEN 1 ELSE 0)
       /\ sends' + pendingSends' > sends + pendingSends =>
             \E rms \in RmsLevels : AudioFrame(1, rms)
      ]_vars

\* of two frames handled by the connected session, the first, loud and with an
\* empty resampled buffer, caused no send and the second one caused one
C29_Witness ==
    /\ Len(frames) = 2
    /\ frames[1].n = 0
    /\ frames[2].n = 1
    /\ frames[2].queued
    /\ lastUserSpeechTime = 1
    /\ sends + pendingSends = 1

\* C30: when the interval callback, the clock and the due grace timer are
\* fairly run, every session reaches Ended (onComplete is invoked), whether
\* or not the API key is present, the microphone is granted, the channel
\* opens, fails or closes.
C30_EverySessionEnds == <>Ended

\* a session without API key, which never got past the first check of
\* initSession, was ended by the countdown and handed over
C30_Witness ==
    /\ initPc = "returned"
    /\ status = "error"
    /\ channel = "none"
    /\ Ended
    /\ completions[1].reason = TimeLimitReason

\* C31: once disconnect() has run, no unit is started any more: a decode that
\* settles afterwards leaves the playback log as it is.
C31_NothingScheduledAfterShutdown ==
    [][disconnectCalls >= 1 => Len(scheduled') = Len(scheduled)]_vars

\* C37: the focus-loss counter is at most the threshold in every reachable
\* state, and once termination has been requested the status line of the
\* session keeps showing "Ending: <reason>".
C37_CounterStopsAtThreshold ==
    /\ tabSwitchCount <= TabSwitchLimit
    /\ terminationTriggered => systemMessageStatus.kind = "ending"

\* onopen has fired on the channel
C32_Opened == channel \in {"open", "closing", "closed"}

\* a run of disconnect() has made the close call of the transport: the
\* session was stored by the resolved connect promise and the ref is cleared
C32_ClosedByShutdown == initPc = "done" /\ ~sessionRef

\* C32: a sendRealtimeInput call is made, and a send is queued on the connect
\* promise, only after onopen has fired and only while no run of disconnect()
\* has made the close call of the transport; the sends queued on the pending
\* promise run when it resolves, which is before any such close call.
C32_SendsOnlyWhileTransportUp ==
    [][(sends' > sends \/ pendingSends' > pendingSends) =>
          /\ C32_Opened
          /\ ~C32_ClosedByShutdown]_vars

\* a chunk was sent, then the shutdown closed the transport, and a frame with
\* a non-empty buffer raised after the unmount caused no send
C32_Witness ==
    /\ Len(frames) = 2
    /\ frames[1].queued
    /\ frames[2].n = 1
    /\ ~frames[2].mounted
    /\ ~frames[2].queued
    /\ sends = 1
    /\ C32_ClosedByShutdown
    /\ channel = "closing"

\* C33: once the transport has closed and the status has become 'error', no
\* further sendRealtimeInput call is made and none is queued.
C33_NoSendAfterTransportFailure ==
    [][(channel = "closed" /\ status = "error") =>
          /\ sends' = sends
          /\ pendingSends' <= pendingSends]_vars

\* the entries an agent text delta can produce
C35_AgentLines == {<<"AI: ">> \o TextStream[k] : k \in 1..Len(TextStream)}

\* C35: every transcript entry is "AI: " followed by the text of a delivered
\* text delta, and every transcript handed to onComplete is the join of the
\* entries recorded up to the handoff, so it holds agent text only.
C35_TranscriptIsAgentOnly ==
    /\ \A i \in 1..Len(fullTranscriptHistory) :
          /\ fullTranscriptHistory[i][1] = "AI: "
          /\ fullTranscriptHistory[i] \in C35_AgentLines
    /\ \A c \in 1..Len(completions) :
          \E k \in 0..Len(fullTranscriptHistory) :
             completions[c].transcript = Join(SubSeq(fullTranscriptHistory, 1, k))

\* the candidate's audio was sent, the agent spoke twice, and the handoff
\* carried the two agent entries
C35_Witness ==
    /\ Len(completions) = 1
    /\ Len(fullTranscriptHistory) = 2
    /\ completions[1].transcript = Join(fullTranscriptHistory)
    /\ sends >= 1

\* C36: timeLeft is between 0 and 600 in every reachable state; an interval
\* callback takes it down by exactly 1 while it is above 1 and to 0 otherwise,
\* also after termination has been requested, and nothing else changes it.
C36_CountdownStaysInRange ==
    /\ [](timeLeft \in 0..InitialTimeLeft)
    /\ [][/\ ticks' # ticks =>
                timeLeft' = IF timeLeft > 1 THEN timeLeft - 1 ELSE 0
          /\ timeLeft' # timeLeft => ticks' = ticks + 1]_vars

\* the interval has fired once more after the callback that requested the
\* termination, and the countdown is still 0
C36_Witness ==
    /\ ticks = InitialTimeLeft + 1
    /\ timeLeft = 0
    /\ terminationTriggered
    /\ isMounted

\* the reason of the handoff that the i-th pending continuation belongs to
C34_ReasonOf(i) == completions[pendingResults[i].handoff].reason

\* the exact test of the claim: a reason is present and is not "Completed"
C34_Disqualifying(reason) == reason \notin {Undefined, ""} /\ reason # "Completed"

\* C34: the handoff takes the disqualification branch (no evaluation of the
\* transcript) iff its reason is present and differs from "Completed", and the
\* result that branch sets is rating 0, not passed, carrying the reason; any
\* other handoff leads to a result without a termination reason.
C34_DisqualifiedIffOtherReason ==
    /\ [](\A i \in DOMAIN pendingResults :
             pendingResults[i].kind = "terminated" <=> C34_Disqualifying(C34_ReasonOf(i)))
    /\ [][result' # result =>
            \E i \in DOMAIN pendingResults :
               /\ pendingResults' = RemoveAt(pendingResults, i)
               /\ IF C34_Disqualifying(C34_ReasonOf(i))
                  THEN /\ result'[1].rating = 0
                       /\ ~result'[1].passed
                       /\ result'[1].terminationReason = C34_ReasonOf(i)
                       /\ result'[1].feedback =
                             "Interview terminated early by proctoring system."
                  ELSE /\ result'[1].terminationReason = Undefined
                       /\ result'[1].feedback #
                             "Interview terminated early by proctoring system."]_vars

\* an endInterview call with a reason text of its own ended the session and
\* the result reports it as terminated
C34_Witness ==
    /\ appStep = "RESULT"
    /\ result = <<TerminatedResult("Candidate asked to stop")>>
    /\ completions[1].reason = "Candidate asked to stop"

\* C38: every handoff is followed by a result: once onComplete has been called
\* the application eventually shows RESULT with a result set; RESULT is
\* entered only from EVALUATING, and never without a result.
C38_HandoffReachesResult ==
    /\ Ended ~> (appStep = "RESULT" /\ result # NullResult)
    /\ [](appStep = "RESULT" => result # NullResult)
    /\ [](Ended => appStep \in {"EVALUATING", "RESULT"})
    /\ [][appStep' = "RESULT" => appStep \in {"EVALUATING", "RESULT"}]_vars

\* the evaluation of a completed interview has been awaited and its answer
\* shown
C38_Witness ==
    /\ appStep = "RESULT"
    /\ completions[1].reason = Completed
    /\ result # NullResult
    /\ result[1].passed
    /\ pendingResults = <<>>

====
